---- MODULE Spec2Model ----
(***************************************************************************)
(* effect-http-bridge: the Result algebra, the fluent Result builder and   *)
(* the lazily initialised shared runtime of an HttpBridge client           *)
(* (src/src/HttpBridge.ts).                                                *)
(*                                                                         *)
(* Every JavaScript value is a record, so that any two values can be       *)
(* compared: null is Null, an Option is None or Some(v), a Result carries  *)
(* the TypeId property of ResultProto.  A Cause (effect/Cause) is kept as   *)
(* the left-to-right sequence of its leaves (Fail, Die, Interrupt); the    *)
(* empty sequence is Cause.empty.  The operations of effect/Cause that the *)
(* source calls (failureOption, dieOption, isInterruptedOnly, squash)      *)
(* depend on that sequence only.                                           *)
(***************************************************************************)
EXTENDS Integers, Sequences, FiniteSets, TLC

VARIABLES
    builder,        \* the BuilderImpl instance: [result, output]
    chain,          \* the clauses called on the builder so far, in call order
    invoked,        \* the handlers invoked so far, in order
    ret,            \* what the terminal call did: Idle, a return or a throw
    handlerReturns, \* what the handlers of this run return: a value, null
                    \* or undefined
    input,          \* the argument a Result combinator is applied to
    outcome,        \* what the combinator did with it
    runtimePromise, \* Tag: let runtimePromise
    initStarted,    \* how many times Layer.toRuntime(self.layer) was run
    layerFails,     \* whether building the client's layer fails at present
    calls           \* the query / mutation calls of one client

vars == <<builder, chain, invoked, ret, handlerReturns, input, outcome,
          runtimePromise, initStarted, layerFails, calls>>

builderVars == <<builder, chain, invoked, ret, handlerReturns>>
resultVars == <<input, outcome>>
clientVars == <<runtimePromise, initStarted, layerFails, calls>>

---------------------------------------------------------------------------
(* Bounds of the model *)

MaxLeaves == 2
MaxClauses == 2

---------------------------------------------------------------------------
(* Values *)

Null == [js |-> "null"]
Undefined == [js |-> "undefined"]

None == [_tag |-> "None"]
Some(v) == [_tag |-> "Some", value |-> v]
Option_isNone(o) == o._tag = "None"
Option_isSome(o) == o._tag = "Some"
Option_filter(o, pred) ==
    IF Option_isSome(o) /\ o.value \in pred THEN o ELSE None

hasProperty(u, p) == p \in DOMAIN u

TypeId == [symbol |-> "@effect-atom/atom/Result"]

\* typed domain errors: two tagged ones and one that carries no _tag
ErrNotFound == [_tag |-> "NotFound"]
ErrUnauthorized == [_tag |-> "Unauthorized"]
ErrPlain == [message |-> "boom"]
Errors == {ErrNotFound, ErrUnauthorized, ErrPlain}

Defects == {[defect |-> "TypeError"]}

Values == {[n |-> 1], [n |-> 2]}

Timestamps == {0, 1}

\* the leaves of a Cause
Fail(e) == [_tag |-> "Fail", error |-> e]
Die(d) == [_tag |-> "Die", defect |-> d]
Interrupt == [_tag |-> "Interrupt"]
Leaves == {Fail(e) : e \in Errors} \cup {Die(d) : d \in Defects} \cup {Interrupt}

SeqsUpTo(S, n) == UNION {[1..k -> S] : k \in 0..n}
Causes == SeqsUpTo(Leaves, MaxLeaves)

\* the first leaf of kind tag that a traversal of the cause finds
SelectFirst(c, tag) ==
    LET hits == {i \in 1..Len(c) : c[i]._tag = tag}
    IN  IF hits = {} THEN None
        ELSE Some(c[CHOOSE i \in hits : \A j \in hits : i <= j])

\* Cause.failureOption: the first Fail of the cause, if any
failureOption(c) ==
    LET f == SelectFirst(c, "Fail")
    IN  IF Option_isSome(f) THEN Some(f.value.error) ELSE None

\* Cause.dieOption: the first Die of the cause, if any
dieOption(c) ==
    LET d == SelectFirst(c, "Die")
    IN  IF Option_isSome(d) THEN Some(d.value.defect) ELSE None

\* Cause.isInterruptedOnly: no Fail and no Die anywhere (true of Cause.empty)
isInterruptedOnly(c) == \A i \in 1..Len(c) : c[i]._tag = "Interrupt"

InterruptedException == [_tag |-> "InterruptedException"]

\* Cause.squash: the first typed error, else the first defect, else an
\* InterruptedException
squash(c) ==
    IF Option_isSome(failureOption(c)) THEN failureOption(c).value
    ELSE IF Option_isSome(dieOption(c)) THEN dieOption(c).value
    ELSE InterruptedException

---------------------------------------------------------------------------
(* Result *)

NoOptions == [none |-> TRUE]

\* success(value, options) at clock time now
success(value, options, now) ==
    [typeId |-> TypeId, _tag |-> "Success", value |-> value,
     timestamp |-> IF hasProperty(options, "timestamp")
                   THEN options.timestamp ELSE now]

failure(c) == [typeId |-> TypeId, _tag |-> "Failure", cause |-> c]

isResult(u) == hasProperty(u, "typeId")

\* Equal.equals on values and on causes: values are compared as such, causes
\* leaf by leaf
Equal_equals(a, b) == a = b

\* ResultProto[Equal.symbol]: same tag, and equal value or equal cause; the
\* timestamp takes no part
Equal_symbol(this, that) ==
    IF this._tag # that._tag
    THEN FALSE
    ELSE IF this._tag = "Success"
         THEN Equal_equals(this.value, that.value)
         ELSE Equal_equals(this.cause, that.cause)
isSuccess(r) == r._tag = "Success"
isFailure(r) == r._tag = "Failure"

Results ==
    {success(v, [timestamp |-> t], 0) : v \in Values, t \in Timestamps}
        \cup {failure(c) : c \in Causes}

---------------------------------------------------------------------------
(* BuilderImpl *)

\* the output of handler h applied to (a, r); a handler is named by the
\* position of its clause in the chain, the orElse fallback by 0
HandlerOut(h, a, r) ==
    CASE handlerReturns = "null" -> Null
      [] handlerReturns = "undefined" -> Undefined
      [] OTHER -> [by |-> h, arg |-> a, result |-> r]
FallbackOut == [by |-> 0]

NotCalled == [called |-> <<>>, opt |-> None]

\* a capture through Option.fromNullable: null and undefined count as no
\* output
Called_fromNullable(h, v) ==
    [called |-> <<h>>, opt |-> IF v \in {Null, Undefined} THEN None ELSE Some(v)]

Called(h, v) == [called |-> <<h>>, opt |-> Some(v)]

new_BuilderImpl(r) == [result |-> r, output |-> None]

\* a slip in when: the slot is not examined, so a later matching clause
\* overwrites the captured output
when_overwrites(self, refines, f) ==
    IF refines
    THEN [self |-> IF Option_isSome(f.opt)
                   THEN [self EXCEPT !.output = f.opt] ELSE self,
          called |-> f.called]
    ELSE [self |-> self, called |-> <<>>]

\* a when that leaves this alone: the captured output would go to a new
\* builder object, and the receiver keeps its empty slot
when_copies(self, refines, f) ==
    IF Option_isNone(self.output) /\ refines
    THEN [self |-> self, called |-> f.called]
    ELSE [self |-> self, called |-> <<>>]

\* when(refinement, f): refines is refinement(this.result), f is f(this.result)
\* with the handlers it invokes; f is evaluated only when it is called.
\* It assigns this.output and returns this: self is the receiver after the call
when(self, refines, f) ==
    IF Option_isNone(self.output) /\ refines
    THEN [self |-> IF Option_isSome(f.opt)
                   THEN [self EXCEPT !.output = f.opt] ELSE self,
          called |-> f.called]
    ELSE [self |-> self, called |-> <<>>]

onSuccess(self, h) ==
    when(self, isSuccess(self.result),
         Called(h, HandlerOut(h, self.result.value, self.result)))

onFailure(self, h) ==
    when(self, isFailure(self.result),
         Called(h, HandlerOut(h, [cause |-> self.result.cause], self.result)))

onErrorIf(self, refinement, h) ==
    when(self, isFailure(self.result),
         LET e == Option_filter(failureOption(self.result.cause), refinement)
         IN  IF Option_isSome(e)
             THEN Called(h, HandlerOut(h, e.value, self.result))
             ELSE NotCalled)

constTrue == Errors

\* a slip in onError: it is given the behaviour of onFailure
onError_anyFailure(self, h) ==
    when(self, isFailure(self.result),
         Called(h, HandlerOut(h, squash(self.result.cause), self.result)))

onError(self, h) == onErrorIf(self, constTrue, h)

\* a slip in the predicate: an array of tags is compared like a string
TagPredicate_noArray(tag) ==
    {e \in Errors : hasProperty(e, "_tag") /\ e._tag = tag.tag}

\* the predicate onErrorTag hands to onErrorIf; tag is a string or an array
TagPredicate(tag) ==
    {e \in Errors :
        /\ hasProperty(e, "_tag")
        /\ IF tag.isArray THEN e._tag \in tag.tags ELSE e._tag = tag.tag}

onErrorTag(self, tag, h) == onErrorIf(self, TagPredicate(tag), h)

\* a slip in onDefect: the cause is squashed, so a typed error is handed to
\* the defect handler
onDefect_squashes(self, h) ==
    when(self, isFailure(self.result),
         LET d == failureOption(self.result.cause)
         IN  IF Option_isSome(d)
             THEN Called(h, HandlerOut(h, d.value, self.result))
             ELSE IF Option_isSome(dieOption(self.result.cause))
             THEN Called(h, HandlerOut(h, dieOption(self.result.cause).value,
                                       self.result))
             ELSE NotCalled)

onDefect(self, h) ==
    when(self, isFailure(self.result),
         LET d == dieOption(self.result.cause)
         IN  IF Option_isSome(d)
             THEN Called(h, HandlerOut(h, d.value, self.result))
             ELSE NotCalled)

Return(op, v, called) ==
    [op |-> op, kind |-> "return", value |-> v, called |-> called]
Throw(op, v) == [op |-> op, kind |-> "throw", value |-> v, called |-> <<>>]

\* an orElse that evaluates its fallback before it looks at the slot
orElse_eager(self) ==
    IF Option_isNone(self.output)
    THEN Return("orElse", FallbackOut, <<0>>)
    ELSE Return("orElse", self.output.value, <<0>>)

orElse(self) ==
    IF Option_isNone(self.output)
    THEN Return("orElse", FallbackOut, <<0>>)
    ELSE Return("orElse", self.output.value, <<>>)

\* a slip in orNull: it is given the unmatched-Failure branch of render
orNull_rethrows(self) ==
    IF Option_isSome(self.output)
    THEN Return("orNull", self.output.value, <<>>)
    ELSE IF isFailure(self.result)
         THEN Throw("orNull", squash(self.result.cause))
         ELSE Return("orNull", Null, <<>>)

orNull(self) ==
    IF Option_isNone(self.output)
    THEN Return("orNull", Null, <<>>)
    ELSE Return("orNull", self.output.value, <<>>)

\* a slip in render: an unmatched Failure is returned as null
render_swallows(self) ==
    IF Option_isSome(self.output)
    THEN Return("render", self.output.value, <<>>)
    ELSE Return("render", Null, <<>>)

render(self) ==
    IF Option_isSome(self.output)
    THEN Return("render", self.output.value, <<>>)
    ELSE IF isFailure(self.result)
         THEN Throw("render", squash(self.result.cause))
         ELSE Return("render", Null, <<>>)

---------------------------------------------------------------------------
(* The builder as a state machine: builder(r), clauses, one terminal *)

Idle == [op |-> "none", kind |-> "none", value |-> Null, called |-> <<>>]

StringTag(t) == [isArray |-> FALSE, tag |-> t, tags |-> {}]
ArrayTag(ts) == [isArray |-> TRUE, tag |-> "", tags |-> ts]
TagArgs ==
    {StringTag("NotFound"), StringTag("Unauthorized"),
     ArrayTag({"NotFound", "Unauthorized"})}

Refinements == {{ErrPlain}}

Clause(op) == [op |-> op, tag |-> StringTag(""), refinement |-> {}]

InitOthersOfBuilder ==
    /\ input = Null
    /\ outcome = Idle
    /\ runtimePromise = "undefined"
    /\ initStarted = 0
    /\ layerFails = FALSE
    /\ calls = <<>>

\* builder(r) for some Result r
InitChain ==
    /\ \E r \in Results : builder = new_BuilderImpl(r)
    /\ chain = <<>>
    /\ invoked = <<>>
    /\ ret = Idle
    /\ InitOthersOfBuilder

InitBuilder == InitChain /\ handlerReturns = "value"

\* a builder exists and no terminal has been called on it
Bound == hasProperty(builder, "result") /\ ret = Idle

CanChain == Bound /\ Len(chain) < MaxClauses

\* the clause c was called and did step: [self, called]
Chained(c, step) ==
    /\ builder' = step.self
    /\ invoked' = invoked \o step.called
    /\ chain' = Append(chain, c)
    /\ UNCHANGED <<ret, handlerReturns, resultVars, clientVars>>

OnSuccess ==
    /\ CanChain
    /\ Chained(Clause("onSuccess"), onSuccess(builder, Len(chain) + 1))

OnFailure ==
    /\ CanChain
    /\ Chained(Clause("onFailure"), onFailure(builder, Len(chain) + 1))

OnError ==
    /\ CanChain
    /\ Chained(Clause("onError"), onError(builder, Len(chain) + 1))

OnErrorIf ==
    /\ CanChain
    /\ \E p \in Refinements :
          Chained([Clause("onErrorIf") EXCEPT !.refinement = p],
                  onErrorIf(builder, p, Len(chain) + 1))

OnErrorTag ==
    /\ CanChain
    /\ \E t \in TagArgs :
          Chained([Clause("onErrorTag") EXCEPT !.tag = t],
                  onErrorTag(builder, t, Len(chain) + 1))

OnDefect ==
    /\ CanChain
    /\ Chained(Clause("onDefect"), onDefect(builder, Len(chain) + 1))

\* the terminal call returned or threw r
Terminated(r) ==
    /\ ret' = r
    /\ invoked' = invoked \o r.called
    /\ UNCHANGED <<builder, chain, handlerReturns, resultVars, clientVars>>

OrElse ==
    /\ Bound
    /\ Terminated(orElse(builder))

OrNull ==
    /\ Bound
    /\ Terminated(orNull(builder))

Render ==
    /\ Bound
    /\ Terminated(render(builder))

NextBuilder ==
    \/ OnSuccess
    \/ OnFailure
    \/ OnError
    \/ OnErrorIf
    \/ OnErrorTag
    \/ OnDefect
    \/ OrElse
    \/ OrNull
    \/ Render

Spec == InitBuilder /\ [][NextBuilder]_vars

\* the same chains with handlers that return a value, null or undefined
InitNullable ==
    InitChain /\ handlerReturns \in {"value", "null", "undefined"}

SpecNullable == InitNullable /\ [][NextBuilder]_vars

---------------------------------------------------------------------------
(* The Result accessors and combinators *)

Bool(b) == [bool |-> b]

value(self) == IF self._tag = "Success" THEN Some(self.value) ELSE None

cause(self) == IF self._tag = "Failure" THEN Some(self.cause) ELSE None

error(self) ==
    IF self._tag = "Failure"
    THEN (LET e == failureOption(self.cause)
          IN  IF Option_isSome(e) THEN Some(e.value) ELSE None)
    ELSE None

\* an isInterrupted that asks whether the cause holds any interruption
isInterrupted_some(r) ==
    r._tag = "Failure" /\ \E i \in 1..Len(r.cause) : r.cause[i]._tag = "Interrupt"

isInterrupted(r) == r._tag = "Failure" /\ isInterruptedOnly(r.cause)

\* what an accessor or combinator did: it returned v or threw v, after
\* calling the functions named in called
Did(op, kind, v, called) ==
    [op |-> op, kind |-> kind, value |-> v, called |-> called]

\* the function f handed to map, and the handlers handed to match
F(a) == [f |-> a]
MatchOut(handler, r) == [by |-> handler, arg |-> r]
OrElseOut == [by |-> "orElse"]

\* a map that builds the new Success without the original's metadata
map_fresh(self, now) ==
    IF self._tag = "Failure"
    THEN Did("map", "return", failure(self.cause), <<>>)
    ELSE Did("map", "return", success(F(self.value), NoOptions, now), <<"f">>)

map(self, now) ==
    IF self._tag = "Failure"
    THEN Did("map", "return", failure(self.cause), <<>>)
    ELSE Did("map", "return", success(F(self.value), self, now), <<"f">>)

match(self) ==
    IF self._tag = "Failure"
    THEN Did("match", "return", MatchOut("onFailure", self), <<"onFailure">>)
    ELSE Did("match", "return", MatchOut("onSuccess", self), <<"onSuccess">>)

getOrElse(self) ==
    IF Option_isNone(value(self))
    THEN Did("getOrElse", "return", OrElseOut, <<"orElse">>)
    ELSE Did("getOrElse", "return", value(self).value, <<>>)

NoSuchElementException ==
    [_tag |-> "NoSuchElementException",
     message |-> "Result.getOrThrow: no value found"]

getOrThrow(self) ==
    IF Option_isNone(value(self))
    THEN Did("getOrThrow", "throw", NoSuchElementException, <<>>)
    ELSE Did("getOrThrow", "return", value(self).value, <<>>)

\* a JavaScript array, and a plain object as its own entries in key order
Array(items) == [isArray |-> TRUE, items |-> items]
Object(entries) == [isArray |-> FALSE, items |-> entries]
Entry(k, v) == [key |-> k, val |-> v]
isIterable(u) == u.isArray

\* Array.from(results, (result, i) => [i, result]) or Object.entries(results)
EntriesOf(results) ==
    IF isIterable(results)
    THEN [i \in 1..Len(results.items) |-> Entry([index |-> i - 1], results.items[i])]
    ELSE results.items

\* successes[key] = v: on an array the next index, on an object a new key
Assign(successes, k, v) ==
    IF successes.isArray
    THEN Array(Append(successes.items, v))
    ELSE Object(Append(successes.items, Entry(k, v)))

\* a slip in the loop of all: a Failure entry is skipped, not returned
RECURSIVE allLoop_skips(_, _, _, _)
allLoop_skips(entries, i, successes, now) ==
    IF i > Len(entries)
    THEN success(successes, NoOptions, now)
    ELSE IF ~isResult(entries[i].val)
    THEN allLoop_skips(entries, i + 1,
                       Assign(successes, entries[i].key, entries[i].val), now)
    ELSE IF ~isSuccess(entries[i].val)
    THEN allLoop_skips(entries, i + 1, successes, now)
    ELSE allLoop_skips(entries, i + 1,
                       Assign(successes, entries[i].key, entries[i].val.value),
                       now)

\* the loop of all, from entry i on
RECURSIVE allLoop(_, _, _, _)
allLoop(entries, i, successes, now) ==
    IF i > Len(entries)
    THEN success(successes, NoOptions, now)
    ELSE IF ~isResult(entries[i].val)
    THEN allLoop(entries, i + 1,
                 Assign(successes, entries[i].key, entries[i].val), now)
    ELSE IF ~isSuccess(entries[i].val)
    THEN entries[i].val
    ELSE allLoop(entries, i + 1,
                 Assign(successes, entries[i].key, entries[i].val.value), now)

all(results, now) ==
    Did("all", "return",
        allLoop(EntriesOf(results), 1,
                IF isIterable(results) THEN Array(<<>>) ELSE Object(<<>>), now),
        <<>>)

---------------------------------------------------------------------------
(* The accessors and combinators applied to bounded inputs *)

MaxEntries == 3

\* a plain object that looks like a Failure but is no Result
LookAlike == [_tag |-> "Failure", lookalike |-> TRUE]
PlainValues == {[n |-> 1], LookAlike}

EntryValues ==
    {success([n |-> 1], [timestamp |-> 0], 0),
     success([n |-> 2], [timestamp |-> 1], 0),
     failure(<<Fail(ErrNotFound)>>),
     failure(<<Die([defect |-> "TypeError"])>>)} \cup PlainValues

KeyNames == <<"a", "b", "c", "d", "e", "f">>

Collections ==
    {Array(items) : items \in SeqsUpTo(EntryValues, MaxEntries)}
        \cup {Object([i \in 1..Len(items) |-> Entry([name |-> KeyNames[i]], items[i])]) :
                  items \in SeqsUpTo(EntryValues, MaxEntries)}

NoBuilder == [none |-> TRUE]

InitResult ==
    /\ input \in Results \cup Collections
    /\ outcome = Idle
    /\ builder = NoBuilder
    /\ chain = <<>>
    /\ invoked = <<>>
    /\ ret = Idle
    /\ handlerReturns = "value"
    /\ runtimePromise = "undefined"
    /\ initStarted = 0
    /\ layerFails = FALSE
    /\ calls = <<>>

OnResult == outcome = Idle /\ hasProperty(input, "typeId")
OnCollection == outcome = Idle /\ hasProperty(input, "isArray")

Applied(d) ==
    /\ outcome' = d
    /\ UNCHANGED <<input, builderVars, clientVars>>

IsSuccess ==
    /\ OnResult
    /\ Applied(Did("isSuccess", "return", Bool(isSuccess(input)), <<>>))

IsFailure ==
    /\ OnResult
    /\ Applied(Did("isFailure", "return", Bool(isFailure(input)), <<>>))

IsInterrupted ==
    /\ OnResult
    /\ Applied(Did("isInterrupted", "return", Bool(isInterrupted(input)), <<>>))

ValueOf ==
    /\ OnResult
    /\ Applied(Did("value", "return", value(input), <<>>))

ErrorOf ==
    /\ OnResult
    /\ Applied(Did("error", "return", error(input), <<>>))

CauseOf ==
    /\ OnResult
    /\ Applied(Did("cause", "return", cause(input), <<>>))

Map ==
    /\ OnResult
    /\ \E now \in Timestamps : Applied(map(input, now))

Match ==
    /\ OnResult
    /\ Applied(match(input))

GetOrElse ==
    /\ OnResult
    /\ Applied(getOrElse(input))

GetOrThrow ==
    /\ OnResult
    /\ Applied(getOrThrow(input))

All ==
    /\ OnCollection
    /\ \E now \in Timestamps : Applied(all(input, now))

NextResult ==
    \/ IsSuccess
    \/ IsFailure
    \/ IsInterrupted
    \/ ValueOf
    \/ ErrorOf
    \/ CauseOf
    \/ Map
    \/ Match
    \/ GetOrElse
    \/ GetOrThrow
    \/ All

SpecResult == InitResult /\ [][NextResult]_vars

\* the Result operations and the builder together: a run either applies
\* one accessor or combinator to a value or drives one builder chain
InitCore == InitBuilder \/ InitResult

NextCore == NextBuilder \/ NextResult

SpecCore == InitCore /\ [][NextCore]_vars

---------------------------------------------------------------------------
(* Schema({success, error}): the Result codec *)

\* defects as the runtime meets them: an Error object with its stack, and a
\* thrown string
ErrorDefect ==
    [name |-> "TypeError", message |-> "x is not a function",
     stack |-> "TypeError: x is not a function at handler"]
StringDefect == [string |-> "timeout"]
SchemaDefects == {ErrorDefect, StringDefect}

SchemaLeaves ==
    {Fail(e) : e \in Errors}
        \cup {Die(d) : d \in SchemaDefects} \cup {Interrupt}

SchemaResults ==
    {success(v, [timestamp |-> t], 0) : v \in Values, t \in Timestamps}
        \cup {failure(c) : c \in SeqsUpTo(SchemaLeaves, MaxLeaves)}

ParseError == [_tag |-> "ParseError"]

\* options.success and options.error: the caller's schemas.  Their encoded
\* side is another type than their decoded side, and decoding what they
\* encoded gives the value back
success_encode(v) == [encoded |-> v]
success_is(i) == hasProperty(i, "encoded") /\ i.encoded \in Values
success_decode(i) == i.encoded
error_encode(e) == [encoded |-> e]
error_is(i) == hasProperty(i, "encoded") /\ i.encoded \in Errors
error_decode(i) == i.encoded

\* Schema_.Defect, encoding: an Error gives its name and message and not its
\* stack; anything else gives its pretty-printed string
Defect_encode(d) ==
    IF hasProperty(d, "stack")
    THEN [name |-> d.name, message |-> d.message]
    ELSE d

\* Schema_.Defect, decoding: an object with a message gives a new Error of
\* that message and name, caused by the object, with the object's stack or
\* the empty one; anything else gives String(i)
Defect_decode(i) ==
    IF hasProperty(i, "message")
    THEN [name |-> IF hasProperty(i, "name") THEN i.name ELSE "Error",
          message |-> i.message,
          stack |-> IF hasProperty(i, "stack") THEN i.stack ELSE "",
          cause |-> i]
    ELSE i

\* Schema_.Cause({error, defect: Schema_.Defect}), leaf by leaf
Cause_encodeLeaf(l) ==
    CASE l._tag = "Fail" -> [_tag |-> "Fail", error |-> error_encode(l.error)]
      [] l._tag = "Die" -> [_tag |-> "Die", defect |-> Defect_encode(l.defect)]
      [] OTHER -> l

Cause_encode(c) == [i \in 1..Len(c) |-> Cause_encodeLeaf(c[i])]

Cause_isLeaf(l) ==
    /\ hasProperty(l, "_tag")
    /\ CASE l._tag = "Fail" -> hasProperty(l, "error") /\ error_is(l.error)
         [] l._tag = "Die" -> hasProperty(l, "defect")
         [] l._tag = "Interrupt" -> TRUE
         [] OTHER -> FALSE

Cause_is(c) == \A i \in 1..Len(c) : Cause_isLeaf(c[i])

Cause_decodeLeaf(l) ==
    CASE l._tag = "Fail" -> Fail(error_decode(l.error))
      [] l._tag = "Die" -> Die(Defect_decode(l.defect))
      [] OTHER -> l

Cause_decode(c) == [i \in 1..Len(c) |-> Cause_decodeLeaf(c[i])]

\* encode: identity, then the Union of the two TaggedStructs keeps the
\* fields it declares and encodes them
Schema_encode(r) ==
    IF r._tag = "Success"
    THEN [_tag |-> "Success", timestamp |-> r.timestamp,
          value |-> success_encode(r.value)]
    ELSE [_tag |-> "Failure", cause |-> Cause_encode(r.cause)]

\* what the Union of the two TaggedStructs accepts
Schema_is(i) ==
    /\ hasProperty(i, "_tag")
    /\ CASE i._tag = "Success" ->
              /\ hasProperty(i, "timestamp")
              /\ hasProperty(i, "value")
              /\ success_is(i.value)
         [] i._tag = "Failure" -> hasProperty(i, "cause") /\ Cause_is(i.cause)
         [] OTHER -> FALSE

\* a decode that builds the Success without the decoded struct's metadata
Schema_decode_restamps(i, now) ==
    IF ~Schema_is(i)
    THEN Did("decode", "throw", ParseError, <<>>)
    ELSE IF i._tag = "Success"
         THEN Did("decode", "return",
                  success(success_decode(i.value), NoOptions, now), <<>>)
         ELSE Did("decode", "return", failure(Cause_decode(i.cause)), <<>>)

\* decode: e._tag === "Success" ? success(e.value, e) : failure(e.cause), on
\* what the Union decoded; anything the Union refuses is a ParseError
Schema_decode(i, now) ==
    IF ~Schema_is(i)
    THEN Did("decode", "throw", ParseError, <<>>)
    ELSE IF i._tag = "Success"
         THEN Did("decode", "return",
                  success(success_decode(i.value), i, now), <<>>)
         ELSE Did("decode", "return", failure(Cause_decode(i.cause)), <<>>)

\* what arrives from a store or another process
Unknowns ==
    {[_tag |-> "Success", timestamp |-> 1, value |-> success_encode([n |-> 1])],
     [_tag |-> "Success", value |-> success_encode([n |-> 1])],
     [_tag |-> "Failure",
      cause |-> <<[_tag |-> "Die", defect |-> [message |-> "boom"]]>>],
     [_tag |-> "Failure"],
     [_tag |-> "Initial", waiting |-> FALSE],
     [_tag |-> "success", timestamp |-> 1, value |-> success_encode([n |-> 1])],
     [_tag |-> "Waiting"],
     [value |-> success_encode([n |-> 1])]}

InitSchema ==
    /\ input \in SchemaResults \cup Unknowns
    /\ outcome = Idle
    /\ builder = NoBuilder
    /\ chain = <<>>
    /\ invoked = <<>>
    /\ ret = Idle
    /\ handlerReturns = "value"
    /\ runtimePromise = "undefined"
    /\ initStarted = 0
    /\ layerFails = FALSE
    /\ calls = <<>>

\* Schema.encodeSync(schema)(result)
Encode ==
    /\ OnResult
    /\ Applied(Did("encode", "return", Schema_encode(input), <<>>))

\* Schema.decodeUnknownSync(schema)(input)
Decode ==
    /\ outcome = Idle
    /\ ~isResult(input)
    /\ \E now \in Timestamps : Applied(Schema_decode(input, now))

\* Schema.decodeUnknownSync(schema)(encoded), on what Encode produced
DecodeEncoded ==
    /\ outcome.op = "encode"
    /\ \E now \in Timestamps : Applied(Schema_decode(outcome.value, now))

NextSchema ==
    \/ Encode
    \/ Decode
    \/ DecodeEncoded

SpecSchema == InitSchema /\ [][NextSchema]_vars

---------------------------------------------------------------------------
(* One client made by Tag: the shared runtime, query and mutation *)

MaxCalls == 2

\* the client's groups and their endpoints, and what callers may name
ClientGroups == {"counter"}
ClientEndpoints(g) == IF g = "counter" THEN {"count", "increment"} ELSE {}
Targets ==
    {[group |-> "counter", endpoint |-> "count"],
     [group |-> "missing", endpoint |-> "count"],
     [group |-> "counter", endpoint |-> "missing"]}

\* the error E of the client's layer, and what Effect.runPromise rejects with
LayerError == [_tag |-> "LayerError"]
FiberFailure(e) == [_tag |-> "FiberFailure", error |-> e]

\* new Error(`Group "${group}" not found`) and its endpoint twin, thrown in
\* Effect.gen and so a defect of the effect
GroupNotFound(g) == [defect |-> "Group not found", group |-> g]
EndpointNotFound(g, e) ==
    [defect |-> "Endpoint not found", group |-> g, endpoint |-> e]

ErrRequest == [_tag |-> "RequestError"]

Exit_succeed(v) == [_tag |-> "Success", value |-> v]
Exit_failCause(c) == [_tag |-> "Failure", cause |-> c]

\* the exits an endpoint handler's effect can end with
HandlerExits ==
    {Exit_succeed([n |-> 1]),
     Exit_failCause(<<Fail(ErrRequest)>>),
     Exit_failCause(<<Interrupt>>)}

fromExit(exit, now) ==
    IF exit._tag = "Success"
    THEN success(exit.value, NoOptions, now)
    ELSE failure(exit.cause)

\* the effect of query / mutation up to the handler: the exit it ends with
\* without calling a handler, or None when the endpoint handler is called
Lookup(group, endpoint) ==
    IF group \notin ClientGroups
    THEN Some(Exit_failCause(<<Die(GroupNotFound(group))>>))
    ELSE IF endpoint \notin ClientEndpoints(group)
    THEN Some(Exit_failCause(<<Die(EndpointNotFound(group, endpoint))>>))
    ELSE None

\* a slip in getRuntime: the runtime is cached only once it is built, so
\* every call that arrives before that starts an initialization of its own
getRuntime_uncached(promise) ==
    IF promise # "fulfilled"
    THEN [promise |-> "pending", started |-> 1]
    ELSE [promise |-> promise, started |-> 0]

\* a getRuntime that forgets a rejected promise and initializes again
getRuntime_retries(promise) ==
    IF promise \in {"undefined", "rejected"}
    THEN [promise |-> "pending", started |-> 1]
    ELSE [promise |-> promise, started |-> 0]

\* getRuntime(): the promise it returns and whether it started Layer.toRuntime
getRuntime(promise) ==
    IF promise = "undefined"
    THEN [promise |-> "pending", started |-> 1]
    ELSE [promise |-> promise, started |-> 0]

InitClient ==
    /\ runtimePromise = "undefined"
    /\ initStarted = 0
    /\ layerFails \in BOOLEAN
    /\ calls = <<>>
    /\ builder = NoBuilder
    /\ chain = <<>>
    /\ invoked = <<>>
    /\ ret = Idle
    /\ handlerReturns = "value"
    /\ input = Null
    /\ outcome = Idle

\* a call runs up to its first await: const runtime = await getRuntime()
Invoke(kind, t) ==
    LET g == getRuntime(runtimePromise)
    IN  /\ runtimePromise' = g.promise
        /\ initStarted' = initStarted + g.started
        /\ calls' = Append(calls,
              [kind |-> kind, group |-> t.group, endpoint |-> t.endpoint,
               pc |-> "awaitRuntime", saw |-> runtimePromise,
               init |-> initStarted + g.started, sent |-> FALSE,
               result |-> Null])
        /\ UNCHANGED <<layerFails, builderVars, resultVars>>

Query ==
    /\ Len(calls) < MaxCalls
    /\ \E t \in Targets : Invoke("query", t)

Mutation ==
    /\ Len(calls) < MaxCalls
    /\ \E t \in Targets : Invoke("mutation", t)

\* Layer.toRuntime(self.layer) ends: the promise of Effect.runPromise settles
InitSucceeds ==
    /\ runtimePromise = "pending"
    /\ ~layerFails
    /\ runtimePromise' = "fulfilled"
    /\ UNCHANGED <<initStarted, layerFails, calls, builderVars, resultVars>>

InitFails ==
    /\ runtimePromise = "pending"
    /\ layerFails
    /\ runtimePromise' = "rejected"
    /\ UNCHANGED <<initStarted, layerFails, calls, builderVars, resultVars>>

\* the environment: what makes the layer fail appears or goes away
LayerChanges ==
    /\ layerFails' = ~layerFails
    /\ UNCHANGED <<runtimePromise, initStarted, calls, builderVars, resultVars>>

\* the await of getRuntime() ends: with a rejected promise the async function
\* throws, so the promise it returned rejects; otherwise the effect is built
\* and handed to Effect.runPromiseExit
Resume ==
    \E i \in 1..Len(calls) :
        /\ calls[i].pc = "awaitRuntime"
        /\ runtimePromise \in {"fulfilled", "rejected"}
        /\ calls' =
              IF runtimePromise = "rejected"
              THEN [calls EXCEPT ![i].pc = "rejected",
                                 ![i].result = FiberFailure(LayerError)]
              ELSE [calls EXCEPT ![i].pc = "awaitExit",
                                 ![i].sent =
                                     Lookup(calls[i].group, calls[i].endpoint) = None]
        /\ UNCHANGED <<runtimePromise, initStarted, layerFails,
                       builderVars, resultVars>>

\* Effect.runPromiseExit resolves and the call returns Result.fromExit(exit)
Complete ==
    \E i \in 1..Len(calls) :
        /\ calls[i].pc = "awaitExit"
        /\ \E exit \in IF calls[i].sent THEN HandlerExits
                        ELSE {Lookup(calls[i].group, calls[i].endpoint).value},
              now \in Timestamps :
              calls' = [calls EXCEPT ![i].pc = "resolved",
                                     ![i].result = fromExit(exit, now)]
        /\ UNCHANGED <<runtimePromise, initStarted, layerFails,
                       builderVars, resultVars>>

NextClient ==
    \/ Query
    \/ Mutation
    \/ InitSucceeds
    \/ InitFails
    \/ LayerChanges
    \/ Resume
    \/ Complete

SpecClient == InitClient /\ [][NextClient]_vars

---------------------------------------------------------------------------
(* What the clauses are said to match, in terms of the leaves of the cause *)

HasLeaf(c, tag) == \E i \in 1..Len(c) : c[i]._tag = tag
FirstLeaf(c, tag) ==
    c[CHOOSE i \in 1..Len(c) :
        /\ c[i]._tag = tag
        /\ \A j \in 1..(i - 1) : c[j]._tag # tag]

YieldsError(r) == isFailure(r) /\ HasLeaf(r.cause, "Fail")
YieldedError(r) == FirstLeaf(r.cause, "Fail").error
YieldsDefect(r) == isFailure(r) /\ HasLeaf(r.cause, "Die")
YieldedDefect(r) == FirstLeaf(r.cause, "Die").defect

CarriesTag(e, t) ==
    /\ "_tag" \in DOMAIN e
    /\ \/ ~t.isArray /\ e._tag = t.tag
       \/ t.isArray /\ e._tag \in t.tags

ClauseMatches(c, r) ==
    CASE c.op = "onSuccess" -> r._tag = "Success"
      [] c.op = "onFailure" -> r._tag = "Failure"
      [] c.op = "onError" -> YieldsError(r)
      [] c.op = "onErrorIf" -> YieldsError(r) /\ YieldedError(r) \in c.refinement
      [] c.op = "onErrorTag" -> YieldsError(r) /\ CarriesTag(YieldedError(r), c.tag)
      [] c.op = "onDefect" -> YieldsDefect(r)

\* the first argument the handler of a matching clause is called with
ClauseArg(c, r) ==
    CASE c.op = "onSuccess" -> r.value
      [] c.op = "onFailure" -> [cause |-> r.cause]
      [] c.op = "onDefect" -> YieldedDefect(r)
      [] OTHER -> YieldedError(r)

Matching == {i \in 1..Len(chain) : ClauseMatches(chain[i], builder.result)}
FirstMatching == CHOOSE i \in Matching : \A j \in Matching : i <= j
ClauseHandlersInvoked == SelectSeq(invoked, LAMBDA h : h # 0)

\* a step that calls one more clause on the builder
ClauseStep == chain' # chain
NewClause == chain'[Len(chain')]
Fired == invoked' # invoked

---------------------------------------------------------------------------
\* C1: the captured-output slot starts empty and is set at most once: after any
\* sequence of clauses the slot holds the output of the first clause (in call
\* order) whose condition matches the bound Result and only that clause's
\* handler was invoked; with no matching clause the slot is empty and no
\* handler was invoked; and once the slot is set no later step changes it.
C1_SlotIsFirstMatch ==
    IF Matching = {}
    THEN builder.output = None /\ ClauseHandlersInvoked = <<>>
    ELSE /\ builder.output =
              Some(HandlerOut(FirstMatching,
                              ClauseArg(chain[FirstMatching], builder.result),
                              builder.result))
         /\ ClauseHandlersInvoked = <<FirstMatching>>

C1_SetOnce ==
    (builder.output # None) =>
        (builder' = builder /\ (ClauseStep => invoked' = invoked))

C1_FirstMatchWins == [](C1_SlotIsFirstMatch) /\ [][C1_SetOnce]_vars

\* two clauses were called that both match; only the first one's handler ran
C1_Witness ==
    /\ Len(chain) = 2
    /\ Matching = {1, 2}
    /\ invoked = <<1>>
    /\ builder.output # None /\ builder.output.value.by = 1

---------------------------------------------------------------------------
\* the chain builder(r).onError(h1).onError(h2).orElse(h3) has run
OnErrorTwiceOrElse ==
    /\ chain = <<Clause("onError"), Clause("onError")>>
    /\ ret.op = "orElse"

\* C2 as stated: on every Failure, whatever its cause, the chain
\* builder(r).onError(h1).onError(h2).orElse(h3) invokes h1 exactly once,
\* never h2 and never h3, and returns h1's output.
C2_AnyFailureInvokesH1 ==
    (OnErrorTwiceOrElse /\ isFailure(builder.result)) =>
        /\ invoked = <<1>>
        /\ ret.kind = "return" /\ ret.value.by = 1

\* C2 as amended: on a Failure whose cause yields a typed error the chain
\* invokes h1 exactly once with that error, never h2 and never h3, and
\* returns h1's output; on a Failure whose cause yields no typed error
\* (interruption-only, defect-only, empty) neither h1 nor h2 is invoked and
\* the chain returns h3's output.
C2_FirstOnErrorWins ==
    (OnErrorTwiceOrElse /\ isFailure(builder.result)) =>
        IF HasLeaf(builder.result.cause, "Fail")
        THEN /\ invoked = <<1>>
             /\ ret = Return("orElse",
                             HandlerOut(1, YieldedError(builder.result),
                                        builder.result), <<>>)
        ELSE /\ invoked = <<0>>
             /\ ret.kind = "return" /\ ret.value = FallbackOut

\* the chain has run on a Failure made of a typed error and a defect
C2_Witness ==
    /\ OnErrorTwiceOrElse
    /\ isFailure(builder.result)
    /\ HasLeaf(builder.result.cause, "Fail")
    /\ HasLeaf(builder.result.cause, "Die")
    /\ invoked = <<1>>
    /\ ret.value.by = 1

---------------------------------------------------------------------------
---------------------------------------------------------------------------
\* a step that calls the clause op on the builder
StepOf(op) == ClauseStep /\ NewClause.op = op

\* the handler of the clause just called ran on (a, result) and its output
\* was captured
FiredWith(a) ==
    /\ invoked' = Append(invoked, Len(chain'))
    /\ builder'.output = Some(HandlerOut(Len(chain'), a, builder.result))
    /\ builder'.result = builder.result

NotFired == invoked' = invoked /\ builder' = builder

\* C9: onDefect(f) fires iff the slot is empty, the result is a Failure and
\* its cause yields a defect; it then captures f(defect, failureResult).  It
\* does not fire for a Success, for an interruption-only cause or for a cause
\* that is a typed error; and what onError, onErrorIf and onErrorTag hand to
\* their handler is a typed error of the cause, never a defect.
C9_OnDefectStep ==
    StepOf("onDefect") =>
        IF builder.output = None /\ YieldsDefect(builder.result)
        THEN FiredWith(YieldedDefect(builder.result))
        ELSE NotFired

C9_NoDefectAsError ==
    (ClauseStep /\ NewClause.op \in {"onError", "onErrorIf", "onErrorTag"}
        /\ Fired) =>
            /\ builder'.output # None
            /\ builder'.output.value.arg \in Errors \ Defects
            /\ Fail(builder'.output.value.arg) \in
                    {builder.result.cause[i] : i \in 1..Len(builder.result.cause)}

C9_OnDefectNeverFiresOn ==
    (/\ Len(chain) > 0
     /\ chain[Len(chain)].op = "onDefect"
     /\ \/ builder.result._tag = "Success"
        \/ \A i \in 1..Len(builder.result.cause) :
              builder.result.cause[i]._tag = "Interrupt"
        \/ \E e \in Errors : builder.result.cause = <<Fail(e)>>)
        => (invoked = <<>> \/ invoked[Len(invoked)] # Len(chain))

C9_OnDefect ==
    /\ [][C9_OnDefectStep /\ C9_NoDefectAsError]_vars
    /\ [](C9_OnDefectNeverFiresOn)

\* onDefect fired, as the second clause, on a cause holding a typed error
\* and a defect, after an onErrorTag clause that did not match
C9_Witness ==
    /\ Len(chain) = 2
    /\ chain[1].op = "onErrorTag"
    /\ chain[2].op = "onDefect"
    /\ invoked = <<2>>
    /\ HasLeaf(builder.result.cause, "Fail")
    /\ builder.output = Some(HandlerOut(2, YieldedDefect(builder.result),
                                        builder.result))

---------------------------------------------------------------------------
\* C10: onErrorTag(tagOrTags, f) fires iff the slot is empty, the result is
\* a Failure, its cause yields a typed error and that error carries a _tag
\* equal to the given tag or contained in the given list; otherwise slot and
\* handler are left alone.  So on a failure whose typed error is tagged
\* "NotFound", builder(r).onErrorTag("NotFound", h1)
\* .onErrorTag("Unauthorized", h2).orElse(h3) invokes h1 only and returns
\* h1's output.
C10_OnErrorTagStep ==
    StepOf("onErrorTag") =>
        IF /\ builder.output = None
           /\ YieldsError(builder.result)
           /\ CarriesTag(YieldedError(builder.result), NewClause.tag)
        THEN FiredWith(YieldedError(builder.result))
        ELSE NotFired

NotFoundUnauthorizedOrElse ==
    /\ chain = <<[Clause("onErrorTag") EXCEPT !.tag = StringTag("NotFound")],
                 [Clause("onErrorTag") EXCEPT !.tag = StringTag("Unauthorized")]>>
    /\ ret.op = "orElse"
    /\ YieldsError(builder.result)
    /\ YieldedError(builder.result) = ErrNotFound

C10_NotFoundChain ==
    NotFoundUnauthorizedOrElse =>
        /\ invoked = <<1>>
        /\ ret = Return("orElse",
                        HandlerOut(1, ErrNotFound, builder.result), <<>>)

C10_OnErrorTag == [][C10_OnErrorTagStep]_vars /\ [](C10_NotFoundChain)

\* the chain of the claim has run on a cause whose first typed error is
\* tagged NotFound and whose second is tagged Unauthorized
C10_Witness ==
    /\ NotFoundUnauthorizedOrElse
    /\ builder.result.cause = <<Fail(ErrNotFound), Fail(ErrUnauthorized)>>
    /\ invoked = <<1>>

---------------------------------------------------------------------------
\* the entries of the collection all was applied to, in iteration order
InputItems ==
    IF input.isArray THEN input.items
    ELSE [i \in 1..Len(input.items) |-> input.items[i].val]

IsAResult(u) == "typeId" \in DOMAIN u
FailureEntries ==
    {i \in 1..Len(InputItems) :
        IsAResult(InputItems[i]) /\ InputItems[i]._tag = "Failure"}

\* C7: all(c) on a sequence or keyed mapping of Results and plain values: if
\* an entry is a Failure the result is the first Failure in iteration order,
\* verbatim, whatever follows it; otherwise it is a Success wrapping a
\* collection of the same shape and keys, each Success entry replaced by its
\* value and each plain entry kept.  So all([failure(c1), failure(c2)]) is
\* failure(c1).
C7_All ==
    (outcome.op = "all") =>
        /\ outcome.kind = "return"
        /\ IF FailureEntries # {}
           THEN outcome.value =
                    InputItems[CHOOSE i \in FailureEntries :
                                   \A j \in FailureEntries : i <= j]
           ELSE /\ IsAResult(outcome.value)
                /\ outcome.value._tag = "Success"
                /\ outcome.value.value.isArray = input.isArray
                /\ Len(outcome.value.value.items) = Len(input.items)
                /\ \A i \in 1..Len(input.items) :
                      LET got == outcome.value.value.items[i]
                          want == IF IsAResult(InputItems[i])
                                  THEN InputItems[i].value ELSE InputItems[i]
                      IN  IF input.isArray THEN got = want
                          ELSE got.key = input.items[i].key /\ got.val = want

\* all([success, failure(c1), failure(c2), plain]) returned failure(c1)
C7_Witness ==
    /\ outcome.op = "all"
    /\ input.isArray
    /\ Len(input.items) = 3
    /\ FailureEntries = {2, 3}
    /\ input.items[2] # input.items[3]
    /\ outcome.value = input.items[2]

---------------------------------------------------------------------------
\* C8: of the Result and builder operations only getOrThrow (on a Failure)
\* and render() (on an unmatched Failure) raise; isSuccess, isFailure,
\* isInterrupted, value, error, cause, map, match, getOrElse, all, orElse and
\* orNull return a value on every input; getOrThrow returns the value of a
\* Success and raises the missing-value fault on every Failure.
C8_OnlyTwoExitsThrow ==
    /\ (outcome.kind = "throw") =>
            (outcome.op = "getOrThrow" /\ input._tag = "Failure")
    /\ (outcome.op = "getOrThrow") =>
            IF input._tag = "Success"
            THEN outcome.kind = "return" /\ outcome.value = input.value
            ELSE outcome.kind = "throw" /\ outcome.value = NoSuchElementException
    /\ (ret.kind = "throw") =>
            /\ ret.op = "render"
            /\ builder.result._tag = "Failure"
            /\ builder.output = None
    /\ (ret.op \in {"orElse", "orNull"}) => ret.kind = "return"
    /\ (outcome.op \notin {"none", "getOrThrow"}) => outcome.kind = "return"

\* getOrThrow raised on a Failure whose cause is interruption only
C8_Witness ==
    /\ outcome.op = "getOrThrow"
    /\ outcome.kind = "throw"
    /\ input = failure(<<Interrupt>>)

---------------------------------------------------------------------------
Settled(c) == c.pc \in {"resolved", "rejected"}

\* C4: every query / mutation call delivers exactly one outcome as a Result:
\* its promise resolves with a Success or a Failure and never rejects, also
\* when the shared runtime (the client's layer) cannot be built.
C4_NeverRejects ==
    \A i \in 1..Len(calls) :
        /\ calls[i].pc # "rejected"
        /\ Settled(calls[i]) =>
              /\ "typeId" \in DOMAIN calls[i].result
              /\ calls[i].result._tag \in {"Success", "Failure"}

---------------------------------------------------------------------------
\* C5: for one client, under any interleaving of query and mutation calls,
\* Layer.toRuntime of the client's layer is started at most once (by the
\* first call), and every later call, also one that arrives while the first
\* initialization is still pending, awaits that same initialization.
C5_StartedOnce ==
    /\ initStarted <= 1
    /\ (Len(calls) > 0) => initStarted = 1
    /\ \A i \in 1..Len(calls) : calls[i].init = 1

C5_LaterCallsReuse ==
    (Len(calls') > Len(calls) /\ Len(calls) > 0) =>
        /\ initStarted' = initStarted
        /\ runtimePromise' = runtimePromise

C5_SingleFlight == [](C5_StartedOnce) /\ [][C5_LaterCallsReuse]_vars

\* two calls arrived before the initialization completed, and both went on
\* with the one runtime
C5_Witness ==
    /\ Len(calls) = 2
    /\ calls[1].saw = "undefined"
    /\ calls[2].saw = "pending"
    /\ calls[1].pc = "resolved" /\ calls[2].pc = "resolved"
    /\ initStarted = 1

---------------------------------------------------------------------------
\* C6 as stated: a call made after the shared initialization has failed
\* starts the initialization again.
C6_LaterCallRetries ==
    [][(runtimePromise = "rejected" /\ Len(calls') > Len(calls)) =>
           (initStarted' = initStarted + 1 /\ runtimePromise' = "pending")]_vars

\* C6 as amended: if the shared initialization fails, every caller that was
\* waiting on it observes the same failure (its promise rejects with the
\* layer's error), and so does every call made later: the rejected promise
\* stays cached, initialization is never started again, and no call goes on
\* to run its request, even once the cause of the failure is gone.
C6_FailureObserved ==
    /\ \A i \in 1..Len(calls) :
          (calls[i].pc = "rejected") =>
              /\ runtimePromise = "rejected"
              /\ calls[i].result = FiberFailure(LayerError)
    /\ (runtimePromise = "rejected") =>
          \A i \in 1..Len(calls) : calls[i].pc \in {"awaitRuntime", "rejected"}

C6_FailureStays ==
    (runtimePromise = "rejected") =>
        /\ runtimePromise' = "rejected"
        /\ initStarted' = initStarted
        /\ \A i \in 1..Len(calls) :
              (calls'[i] # calls[i]) => calls'[i].pc = "rejected"

C6_FailedInitIsCached == [](C6_FailureObserved) /\ [][C6_FailureStays]_vars

\* the first call saw the initialization fail; the second call was made
\* after that, when the layer could be built again, and failed the same way
C6_Witness ==
    /\ Len(calls) = 2
    /\ calls[1].pc = "rejected"
    /\ calls[2].saw = "rejected"
    /\ calls[2].pc = "rejected"
    /\ calls[2].result = calls[1].result
    /\ ~layerFails
    /\ initStarted = 1

---------------------------------------------------------------------------
\* a step that calls a terminal on the builder
TerminalStep == ret' # ret

\* C11 as stated: a clause leaves the builder it was called on unchanged, so
\* that a clause or terminal applied to that builder afterwards behaves as
\* if the first clause had never been called on it.
C11_ReceiverUnchanged == [][ClauseStep => builder' = builder]_vars

\* C11 as amended: a clause returns the builder it was called on, and a
\* clause that fires sets the slot of that very builder: a later clause or
\* terminal applied to it sees the captured output (orElse returns it and
\* does not evaluate its fallback).  A clause that does not fire leaves the
\* builder unchanged, and no clause or terminal ever changes the bound
\* Result.
C11_ClauseStep ==
    ClauseStep =>
        /\ builder'.result = builder.result
        /\ IF Fired
           THEN builder.output = None /\ builder'.output # None
           ELSE builder' = builder

C11_TerminalStep == TerminalStep => builder' = builder

C11_TerminalSeesClause ==
    (ret.op = "orElse" /\ Matching # {}) =>
        /\ ret.value = HandlerOut(FirstMatching,
                                  ClauseArg(chain[FirstMatching], builder.result),
                                  builder.result)
        /\ invoked = <<FirstMatching>>

C11_ClauseMutatesReceiver ==
    /\ [][C11_ClauseStep /\ C11_TerminalStep]_vars
    /\ [](C11_TerminalSeesClause)

\* b.onSuccess(f) was called on a Success and then b.orElse(g): it returned
\* f's output and g was not evaluated
C11_Witness ==
    /\ Len(chain) = 1
    /\ chain[1].op = "onSuccess"
    /\ builder.result._tag = "Success"
    /\ ret.op = "orElse"
    /\ ret.value = HandlerOut(1, builder.result.value, builder.result)
    /\ invoked = <<1>>

---------------------------------------------------------------------------
\* C12: map(r, f) on a Success returns a new Success whose value is f(value)
\* and whose timestamp is the original's, so it equals success(f(a)); on a
\* Failure it returns a Failure with the same cause and does not invoke f, so
\* it equals failure(c).  The input result is not modified.
C12_MapOutcome ==
    (outcome # Idle /\ outcome.op = "map") =>
        /\ outcome.kind = "return"
        /\ isResult(outcome.value)
        /\ IF input._tag = "Success"
           THEN /\ outcome.value._tag = "Success"
                /\ outcome.value.value = F(input.value)
                /\ outcome.value.timestamp = input.timestamp
                /\ outcome.called = <<"f">>
                /\ \A now \in Timestamps :
                      Equal_symbol(outcome.value,
                                   success(F(input.value), NoOptions, now))
           ELSE /\ outcome.value._tag = "Failure"
                /\ outcome.value.cause = input.cause
                /\ outcome.called = <<>>
                /\ Equal_symbol(outcome.value, failure(input.cause))

C12_InputKept == outcome' # outcome => input' = input

C12_Map == [](C12_MapOutcome) /\ [][C12_InputKept]_vars

\* map was applied to a Success stamped 1: the new Success carries f(value)
\* and the stamp 1, whatever the clock said
C12_Witness ==
    /\ outcome # Idle
    /\ outcome.op = "map"
    /\ input._tag = "Success"
    /\ input.timestamp = 1
    /\ outcome.value = success(F(input.value), [timestamp |-> 1], 0)

---------------------------------------------------------------------------
\* a Failure whose cause holds no typed error and no defect
NoErrorNoDefect(r) ==
    /\ r._tag = "Failure"
    /\ ~HasLeaf(r.cause, "Fail")
    /\ ~HasLeaf(r.cause, "Die")

IsInterruptedApplied == outcome # Idle /\ outcome.op = "isInterrupted"

\* C13 as stated: isInterrupted(result) is true exactly when result is a
\* Failure whose cause consists solely of interruption; it is false for every
\* Success, for every cause with a Fail or a Die, and for a cause that
\* contains no interruption at all.
C13_SolelyInterruption ==
    IsInterruptedApplied =>
        outcome.value = Bool(NoErrorNoDefect(input)
                             /\ HasLeaf(input.cause, "Interrupt"))

\* C13 as amended: isInterrupted(result) is true exactly when result is a
\* Failure whose cause holds no typed error and no defect, which includes the
\* empty cause; it is false for every Success and for every cause containing
\* a Fail or a Die, also when combined with an Interrupt.  On a Result whose
\* cause is interruption only, error() is absent and onError, onErrorIf,
\* onErrorTag and onDefect do not fire.
C13_IsInterruptedValue ==
    IsInterruptedApplied =>
        /\ outcome.kind = "return"
        /\ outcome.value = Bool(NoErrorNoDefect(input))

C13_ErrorAbsent ==
    (outcome # Idle /\ outcome.op = "error" /\ NoErrorNoDefect(input)) =>
        outcome.value = None

C13_ClauseStep ==
    (/\ ClauseStep
     /\ NoErrorNoDefect(builder.result)
     /\ NewClause.op \in {"onError", "onErrorIf", "onErrorTag", "onDefect"})
        => NotFired

C13_IsInterrupted ==
    /\ [](C13_IsInterruptedValue /\ C13_ErrorAbsent)
    /\ [][C13_ClauseStep]_vars

\* isInterrupted answered true for a Failure interrupted twice over
C13_Witness ==
    /\ IsInterruptedApplied
    /\ input._tag = "Failure"
    /\ Len(input.cause) = 2
    /\ \A i \in 1..2 : input.cause[i]._tag = "Interrupt"
    /\ outcome.value = Bool(TRUE)

---------------------------------------------------------------------------
\* a Result was encoded and the encoded form decoded
RoundTripped == outcome.op = "decode" /\ isResult(input)

\* an input from outside was decoded
Decoded == outcome.op = "decode" /\ ~isResult(input)

IsErrorObject(d) == hasProperty(d, "stack")

HasErrorDefect(r) ==
    /\ r._tag = "Failure"
    /\ \E i \in 1..Len(r.cause) :
          r.cause[i]._tag = "Die" /\ IsErrorObject(r.cause[i].defect)

NeitherTag(i) ==
    ~hasProperty(i, "_tag") \/ i._tag \notin {"Success", "Failure"}

C14_Rejects == (Decoded /\ NeitherTag(input)) => outcome.kind = "throw"

LeafComesBack(l, back) ==
    IF l._tag = "Die" /\ IsErrorObject(l.defect)
    THEN /\ back._tag = "Die"
         /\ back.defect # l.defect
         /\ back.defect.name = l.defect.name
         /\ back.defect.message = l.defect.message
         /\ back.defect.stack = ""
    ELSE back = l

\* C14 as amended: encoding a Result and decoding the encoded form yields a
\* Result of the same tag.  A Success comes back with an equal value and its
\* timestamp.  A Failure comes back with every typed error, interruption and
\* string defect of its cause in place; a defect that is an Error object
\* comes back as a new Error with the same name and message, without its
\* stack, so the decoded Failure equals the original exactly when its cause
\* holds no Error-object defect.  Decoding rejects any input whose _tag is
\* neither "Success" nor "Failure".
C14_RoundTripped ==
    RoundTripped =>
        /\ outcome.kind = "return"
        /\ isResult(outcome.value)
        /\ outcome.value._tag = input._tag
        /\ Equal_symbol(outcome.value, input) <=> ~HasErrorDefect(input)
        /\ IF input._tag = "Success"
           THEN /\ outcome.value.value = input.value
                /\ outcome.value.timestamp = input.timestamp
           ELSE /\ Len(outcome.value.cause) = Len(input.cause)
                /\ \A i \in 1..Len(input.cause) :
                      LeafComesBack(input.cause[i], outcome.value.cause[i])

---------------------------------------------------------------------------
\* how often the fallback of orElse was evaluated
FallbackCalls == Cardinality({i \in 1..Len(invoked) : invoked[i] = 0})

C15_OrElseReturn ==
    ret.op = "orElse" =>
        /\ ret.kind = "return"
        /\ IF builder.output = None
           THEN ret.value = FallbackOut /\ FallbackCalls = 1
           ELSE ret.value = builder.output.value /\ FallbackCalls = 0

C15_OrNullReturn ==
    ret.op = "orNull" =>
        /\ ret.kind = "return"
        /\ ret.value = IF builder.output = None
                       THEN Null ELSE builder.output.value
        /\ FallbackCalls = 0

C15_SlotKept ==
    (TerminalStep /\ ret'.op \in {"orElse", "orNull"}) =>
        builder'.output = builder.output

\* C15: orElse(fallback) returns the captured output when the slot is set
\* and does not evaluate fallback then; when the slot is empty it returns
\* fallback(), evaluated exactly once.  orNull() returns the captured output
\* when set and null otherwise.  Neither raises on an unmatched Failure, and
\* neither changes the slot.
C15_SafeExits ==
    /\ [](C15_OrElseReturn /\ C15_OrNullReturn)
    /\ [][C15_SlotKept]_vars

\* orElse ended a chain on a Failure that no clause matched: it returned the
\* fallback's output, evaluated once
C15_Witness ==
    /\ ret.op = "orElse"
    /\ builder.result._tag = "Failure"
    /\ Len(chain) > 0
    /\ builder.output = None
    /\ ret.kind = "return"
    /\ ret.value = FallbackOut
    /\ invoked = <<0>>

---------------------------------------------------------------------------
\* the call names a group or an endpoint the client does not have
NamesAbsent(c) == Lookup(c.group, c.endpoint) # None

NotFoundOf(c) ==
    IF c.group \notin ClientGroups
    THEN GroupNotFound(c.group)
    ELSE EndpointNotFound(c.group, c.endpoint)

\* whether a clause put on a fresh builder of r invokes its handler
Fires(step) == step.called # <<>>

\* C16: a query or mutation call that names a group or an endpoint absent
\* from the client resolves to a Failure whose cause is a defect (Die)
\* carrying the "not found" error, not a typed domain error and not a
\* rejected promise: on that Result error() is absent, onError and
\* onErrorTag do not fire, onDefect fires, and no request is sent to an
\* endpoint handler.
C16_AbsentTargetDies ==
    \A i \in 1..Len(calls) :
        (Settled(calls[i]) /\ NamesAbsent(calls[i])) =>
            /\ calls[i].pc = "resolved"
            /\ calls[i].result = failure(<<Die(NotFoundOf(calls[i]))>>)
            /\ ~calls[i].sent
            /\ error(calls[i].result) = None
            /\ LET b == new_BuilderImpl(calls[i].result)
               IN  /\ ~Fires(onError(b, 1))
                   /\ \A t \in TagArgs : ~Fires(onErrorTag(b, t, 1))
                   /\ Fires(onDefect(b, 1))

---------------------------------------------------------------------------
\* the output the first matching clause's handler gave
FirstOutput ==
    HandlerOut(FirstMatching, ClauseArg(chain[FirstMatching], builder.result),
               builder.result)

HasClause(op) == \E i \in 1..Len(chain) : chain[i].op = op

\* a matching clause captured its handler's output, whatever it is, and no
\* later clause invoked its handler
C17_Captured ==
    Matching # {} =>
        /\ builder.output = Some(FirstOutput)
        /\ builder.output # None
        /\ \A i \in 1..Len(invoked) : invoked[i] = FirstMatching => i = 1
        /\ \A i \in 1..Len(invoked) : invoked[i] \in {0, FirstMatching}

C17_Terminals ==
    (Matching # {} /\ ret.op \in {"orElse", "render"}) =>
        /\ ret.kind = "return"
        /\ ret.value = FirstOutput
        /\ invoked = <<FirstMatching>>

C17_BothBranches ==
    (HasClause("onSuccess") /\ HasClause("onFailure")) =>
        /\ builder.output # None
        /\ ret.op = "render" => ret.kind = "return"

\* C17: a clause whose condition matches captures its handler's output even
\* when that output is null or undefined: the slot counts as set, later
\* clauses are no-ops, orElse returns that output without evaluating its
\* fallback, and render() on a Failure returns it without raising.  A chain
\* containing both onSuccess and onFailure always has its slot set at the
\* terminal, and render() on it never raises.
C17_NullableCaptured == C17_Captured /\ C17_Terminals /\ C17_BothBranches

\* the handlers return null: onSuccess then onFailure on a Failure, and
\* render returned the null that onFailure's handler gave
C17_Witness ==
    /\ handlerReturns = "null"
    /\ Len(chain) = 2
    /\ chain[1].op = "onSuccess"
    /\ chain[2].op = "onFailure"
    /\ builder.result._tag = "Failure"
    /\ ret.op = "render"
    /\ ret.kind = "return"
    /\ ret.value = Null
    /\ invoked = <<2>>

====
